---- MODULE Spec2Model ----
(***************************************************************************)
(* Token lifecycle of handlers/connection_manager.py: the two token        *)
(* stores (local file cs_tokens.json, Secrets Manager secret), the         *)
(* per-call environment probe is_running_on_ec2, load_tokens, save_tokens, *)
(* refresh_tokens and ensure_valid_tokens run by concurrent callers.       *)
(* Time is in seconds; the clock advances in steps of TickSeconds.         *)
(***************************************************************************)
EXTENDS Integers, Sequences, FiniteSets, TLC

VARIABLES
    now,            \* datetime.now(), seconds
    imds,           \* TRUE iff the instance metadata service answers 200
    flaps,          \* number of changes of imds so far
    cs_tokens_json, \* content of the local file "cs_tokens.json"
    secret,         \* content of the secret "<env>/schwab-api/tokens"
    issued,         \* number of TokenSets the token endpoint has issued
    calls,          \* number of ensure_valid_tokens() invocations so far
    saves,          \* access tokens in the order their save completed
    pc,             \* per caller: position inside ensure_valid_tokens()
    on_ec2,         \* per caller: is_running_on_ec2() in load and in save
    tokens,         \* per caller: local `tokens` of ensure_valid_tokens
    new_tokens,     \* per caller: local `new_tokens` of refresh_tokens
    sent,           \* per caller: refresh_token of each POST to TOKEN_URL
    resp,           \* per caller: status of the answer, time of a 200
    ret,            \* per caller: what the call returned or raised
    net,            \* per caller: outbound requests made by the call
    before,         \* per caller: both stores when the call began
    alone,          \* per caller: no other call ran during or since the call
    floor,          \* per caller: Len(saves) when the call began
    grant,          \* per caller: grant_type of the POST to TOKEN_URL
    save_failed,    \* per caller: save_tokens() of this call raised
    long,           \* TRUE in the runs with the longer call budget
    T,              \* store round trip: the dict handed to save_tokens()
    T_orig,         \* store round trip: that dict as it was first built
    n_saves,        \* store round trip: save_tokens(T) calls so far
    loaded,         \* store round trip: load_tokens() result after n saves
    site,           \* API call: the function called
    attempt,        \* API call: loop variable `attempt`
    outcomes,       \* API call: what each request ended in
    slept,          \* API call: argument of each time.sleep()
    api_ret,        \* API call: what the function returned or raised
    APP_KEY,        \* module globals APP_KEY, APP_SECRET (set together)
    environ,        \* os.environ: SCHWAB_APP_KEY and SCHWAB_APP_SECRET
    key_pc,         \* per caller: position inside get_api_keys()
    key_ret,        \* per caller: what get_api_keys() returned or raised
    key_net,        \* per caller: outbound requests of the get_api_keys() call
    key_calls,      \* number of get_api_keys() invocations so far
    resolutions     \* number of load_api_keys() runs so far

vars == <<now, imds, flaps, cs_tokens_json, secret, issued, calls, saves,
          pc, on_ec2, tokens, new_tokens, sent, resp, ret, net, before,
          alone, floor, grant, save_failed, long, T, T_orig, n_saves, loaded,
          site, attempt, outcomes, slept, api_ret,
          APP_KEY, environ, key_pc, key_ret, key_net, key_calls,
          resolutions>>

shared == <<now, imds, flaps, cs_tokens_json, secret, issued, calls, saves>>
locals == <<pc, on_ec2, tokens, new_tokens, sent, resp, ret, net, before,
            alone, floor, grant, save_failed>>
roundTrip == <<T, T_orig, n_saves, loaded>>
apiCall == <<site, attempt, outcomes, slept, api_ret>>
keys == <<APP_KEY, environ, key_pc, key_ret, key_net, key_calls, resolutions>>

----------------------------------------------------------------------------
(* Bounds of the model *)

MaxTicks == 1
MaxFlaps == 1
MaxIssue == 1
MaxCalls == 2
LongIssue == 2
LongCalls == 3

CallLimit  == IF long THEN LongCalls ELSE MaxCalls
IssueLimit == IF long THEN LongIssue ELSE MaxIssue

Threads == {"web", "worker"}

(* Program constants *)

TickSeconds == 60
RefreshBufferSeconds == 120
ProbeRequests == 2

ExpiresInValues == {0, 60, 180}

\* Statuses of the token endpoint other than 200
FailureStatuses == {400, 500}

----------------------------------------------------------------------------
(* Values *)

\* A JSON object / Python dict of tokens; kind tells a dict from None, from
\* a missing file or secret, and from file content json.load cannot decode.
Dict(kind, at, rt, ein, eat) ==
    [kind |-> kind, access_token |-> at, refresh_token |-> rt,
     token_type |-> IF kind = "tokens" THEN "Bearer" ELSE "",
     expires_in |-> ein, expires_at |-> eat]

PyNone  == Dict("None", 0, 0, 0, <<>>)
Absent  == Dict("absent", 0, 0, 0, <<>>)
Empty   == Dict("empty", 0, 0, 0, <<>>)
Garbled == Dict("garbled", 0, 0, 0, <<>>)

\* datetime.isoformat(): the string form of a point in time.
isoformat(t) == <<"T", t>>

ValueError == -1

\* A stored expires_at that is a JSON string: a timestamp or other text.
\* Anything else (here a JSON number) makes fromisoformat raise TypeError.
IsString(v) == v[1] \in {"T", "str"}

\* datetime.fromisoformat(): the point in time, or ValueError.
fromisoformat(s) ==
    IF Len(s) = 2 /\ s[1] = "T" THEN s[2] ELSE ValueError

\* The body of a 200 answer of the token endpoint: the n-th TokenSet.
ResponseJson(n, ein) == Dict("tokens", n, n, ein, <<>>)

NoResp == [status |-> 0, at |-> 0]
NoRet  == [kind |-> "pending", value |-> PyNone]

Returned(v) ==
    [kind |-> IF v.kind = "tokens" THEN "tokens" ELSE "None", value |-> v]
Raised == [kind |-> "raised", value |-> PyNone]

Active(t) == pc[t] \notin {"idle", "done"}

----------------------------------------------------------------------------
(* is_running_on_ec2: two requests to 169.254.169.254 (IMDSv2 token and    *)
(* instance-id, or the IMDSv1 fallback); True iff the service answers 200. *)
is_running_on_ec2 == imds

\* A save_tokens that stores the lifetime itself instead of clock + lifetime.
WithExpiresAt_Duration(tk, clock) ==
    [tk EXCEPT !.expires_at = isoformat(tk.expires_in)]

(* save_tokens, lines 124-125: expires_at is computed from the clock at    *)
(* the moment of the call and written into the caller's dict.              *)
WithExpiresAt(tk, clock) ==
    [tk EXCEPT !.expires_at = isoformat(clock + tk.expires_in)]

(* ensure_valid_tokens, line 292 *)
RefreshDue(expires_at, clock) == clock >= expires_at - RefreshBufferSeconds

----------------------------------------------------------------------------
(* Initial states: at most one of the two stores holds a TokenSet, saved   *)
(* at time 0 with one of the lifetimes the token endpoint reports.         *)

InitialTokens ==
    { WithExpiresAt(ResponseJson(0, e), 0) : e \in ExpiresInValues }

InitialStores ==
    {<<Absent, Absent>>}
    \cup { <<tk, Absent>> : tk \in InitialTokens }
    \cup { <<Absent, tk>> : tk \in InitialTokens }

NotLoaded == Dict("not loaded", 0, 0, 0, <<>>)

\* No caller is inside ensure_valid_tokens().
NoCaller ==
    /\ issued = 0
    /\ calls = 0
    /\ saves = <<>>
    /\ pc = [t \in Threads |-> "idle"]
    /\ on_ec2 = [t \in Threads |-> [load |-> FALSE, save |-> FALSE]]
    /\ tokens = [t \in Threads |-> PyNone]
    /\ new_tokens = [t \in Threads |-> PyNone]
    /\ sent = [t \in Threads |-> <<>>]
    /\ resp = [t \in Threads |-> NoResp]
    /\ ret = [t \in Threads |-> NoRet]
    /\ net = [t \in Threads |-> 0]
    /\ before = [t \in Threads |-> <<Absent, Absent>>]
    /\ alone = [t \in Threads |-> TRUE]
    /\ floor = [t \in Threads |-> 0]
    /\ grant = [t \in Threads |-> "none"]
    /\ save_failed = [t \in Threads |-> FALSE]

\* No save/load round trip is under way.
NoRoundTrip ==
    /\ T = PyNone
    /\ T_orig = PyNone
    /\ n_saves = 0
    /\ loaded = <<>>

\* get_api_keys() has not been called; the globals are None (lines 90-91).
NoKeys(env) ==
    /\ APP_KEY = "None"
    /\ environ = env
    /\ key_pc = [t \in Threads |-> "idle"]
    /\ key_ret = [t \in Threads |-> "pending"]
    /\ key_net = [t \in Threads |-> 0]
    /\ key_calls = 0
    /\ resolutions = 0

\* No API function is running.
NoApiCall ==
    /\ site = "none"
    /\ attempt = 0
    /\ outcomes = <<>>
    /\ slept = <<>>
    /\ api_ret = "pending"

InitTokens(l) ==
    /\ long = l
    /\ now = 0
    /\ imds \in BOOLEAN
    /\ flaps = 0
    /\ \E st \in InitialStores : cs_tokens_json = st[1] /\ secret = st[2]
    /\ NoCaller
    /\ NoRoundTrip
    /\ NoApiCall
    /\ NoKeys("env")

----------------------------------------------------------------------------
(* The environment *)

\* Time passes.
Tick ==
    /\ now < MaxTicks * TickSeconds
    /\ now' = now + TickSeconds
    /\ UNCHANGED <<imds, flaps, cs_tokens_json, secret, issued, calls, saves,
                   locals, long, roundTrip, apiCall, keys>>

\* The metadata service stops or starts answering (timeout=2 in the probe).
MetadataChange ==
    /\ flaps < MaxFlaps
    /\ imds' = ~imds
    /\ flaps' = flaps + 1
    /\ UNCHANGED <<now, cs_tokens_json, secret, issued, calls, saves,
                   locals, long, roundTrip, apiCall, keys>>

----------------------------------------------------------------------------
(* ensure_valid_tokens() *)

\* The call returns v (a dict or None) to its caller.
Return(t, v) ==
    /\ pc' = [pc EXCEPT ![t] = "done"]
    /\ ret' = [ret EXCEPT ![t] = Returned(v)]

\* An exception leaves ensure_valid_tokens().
Raise(t) ==
    /\ pc' = [pc EXCEPT ![t] = "done"]
    /\ ret' = [ret EXCEPT ![t] = Raised]

\* load_tokens(), lines 166-193: what the chosen backend yields. ok = FALSE
\* is a failed get_secret_value (any exception is turned into None).
LoadedFromSecret(ok) ==
    IF ok /\ secret.kind = "tokens" THEN secret ELSE PyNone

LoadedFromFile ==
    IF cs_tokens_json.kind = "absent" THEN PyNone ELSE cs_tokens_json

\* The values load_tokens() can return when the probe answers ec2;
\* Garbled stands for json.load raising JSONDecodeError (line 192).
load_tokens(ec2) ==
    IF ec2
    THEN { LoadedFromSecret(ok) : ok \in BOOLEAN }
    ELSE IF cs_tokens_json.kind \in {"empty", "garbled"}
    THEN {Garbled}
    ELSE {LoadedFromFile}

\* Requests of load_tokens(): the probe, and get_secret_value on EC2.
LoadRequests(ec2) == ProbeRequests + (IF ec2 THEN 1 ELSE 0)

\* ensure_valid_tokens(), lines 275-305, on the loaded value tk.
Decide(t, tk) ==
    IF tk.kind # "tokens"
    THEN /\ Return(t, PyNone)
         /\ UNCHANGED <<sent>>
         /\ net' = [net EXCEPT ![t] = LoadRequests(is_running_on_ec2)]
    ELSE IF tk.expires_at = <<>>
    THEN \* lines 285-287: the key is missing (or its value is falsy)
         /\ Return(t, PyNone)
         /\ UNCHANGED <<sent>>
         /\ net' = [net EXCEPT ![t] = LoadRequests(is_running_on_ec2)]
    ELSE IF ~IsString(tk.expires_at)
    THEN \* line 281: fromisoformat raises TypeError, which is not caught
         /\ Raise(t)
         /\ UNCHANGED <<sent>>
         /\ net' = [net EXCEPT ![t] = LoadRequests(is_running_on_ec2)]
    ELSE IF fromisoformat(tk.expires_at) = ValueError
    THEN \* lines 282-284
         /\ Return(t, PyNone)
         /\ UNCHANGED <<sent>>
         /\ net' = [net EXCEPT ![t] = LoadRequests(is_running_on_ec2)]
    ELSE IF RefreshDue(fromisoformat(tk.expires_at), now)
    THEN \* refresh_tokens(refresh_token): the POST of line 259 is sent
         /\ sent' = [sent EXCEPT ![t] = <<tk.refresh_token>>]
         /\ net' = [net EXCEPT ![t] = LoadRequests(is_running_on_ec2) + 1]
         /\ pc' = [pc EXCEPT ![t] = "refresh_tokens"]
         /\ ret' = [ret EXCEPT ![t] = NoRet]
    ELSE /\ Return(t, tk)
         /\ UNCHANGED <<sent>>
         /\ net' = [net EXCEPT ![t] = LoadRequests(is_running_on_ec2)]

\* A caller invokes ensure_valid_tokens(): load_tokens() probes the
\* environment (line 165) and reads the store it selects; the call returns
\* at once or posts a refresh request.
EnsureValidTokens(t) ==
    /\ ~Active(t)
    /\ calls < CallLimit
    /\ calls' = calls + 1
    /\ on_ec2' = [on_ec2 EXCEPT ![t] = [load |-> is_running_on_ec2,
                                        save |-> FALSE]]
    /\ new_tokens' = [new_tokens EXCEPT ![t] = PyNone]
    /\ resp' = [resp EXCEPT ![t] = NoResp]
    /\ before' = [before EXCEPT ![t] = <<cs_tokens_json, secret>>]
    /\ floor' = [floor EXCEPT ![t] = Len(saves)]
    /\ grant' = [grant EXCEPT ![t] = "refresh_token"]
    /\ save_failed' = [save_failed EXCEPT ![t] = FALSE]
    /\ alone' = [u \in Threads |->
                    u = t /\ \A v \in Threads \ {t} : ~Active(v)]
    /\ \E tk \in load_tokens(is_running_on_ec2) :
          /\ tokens' = [tokens EXCEPT ![t] =
                          IF tk.kind = "garbled" THEN PyNone ELSE tk]
          /\ IF tk.kind = "garbled"
             THEN /\ Raise(t)
                  /\ sent' = [sent EXCEPT ![t] = <<>>]
                  /\ net' = [net EXCEPT ![t] = ProbeRequests]
             ELSE Decide(t, tk)
    /\ UNCHANGED <<now, imds, flaps, cs_tokens_json, secret, issued, saves,
                   long, roundTrip, apiCall, keys>>

\* refresh_tokens(), lines 261-263: a 200 answer is decoded and handed to
\* save_tokens(), which stamps expires_at at once (lines 124-125).
RefreshOk(t, ein) ==
    /\ issued < IssueLimit
    /\ issued' = issued + 1
    /\ resp' = [resp EXCEPT ![t] = [status |-> 200, at |-> now]]
    /\ new_tokens' = [new_tokens EXCEPT ![t] =
                        WithExpiresAt(ResponseJson(issued + 1, ein), now)]
    /\ pc' = [pc EXCEPT ![t] = "save_tokens"]
    /\ UNCHANGED <<ret, on_ec2, net, sent, cs_tokens_json, secret, saves>>

\* A refresh_tokens that discards the stale tokens when the refresh fails.
RefreshFailed_Discards(t, status) ==
    /\ resp' = [resp EXCEPT ![t] = [status |-> status, at |-> 0]]
    /\ Return(t, PyNone)
    /\ cs_tokens_json' = Absent
    /\ secret' = Absent
    /\ UNCHANGED <<issued, new_tokens, on_ec2, net, sent, saves>>

\* A refresh_tokens that posts the refresh token again after a failure.
RefreshFailed_Retries(t, status) ==
    /\ resp' = [resp EXCEPT ![t] = [status |-> status, at |-> 0]]
    /\ sent' = [sent EXCEPT ![t] = Append(@, tokens[t].refresh_token)]
    /\ net' = [net EXCEPT ![t] = @ + 1]
    /\ Return(t, PyNone)
    /\ UNCHANGED <<issued, new_tokens, on_ec2, cs_tokens_json, secret,
                   saves>>

\* refresh_tokens(), lines 265-269: any other status gives None, and
\* ensure_valid_tokens() (lines 297-299) returns None.
RefreshFailed(t, status) ==
    /\ resp' = [resp EXCEPT ![t] = [status |-> status, at |-> 0]]
    /\ Return(t, PyNone)
    /\ UNCHANGED <<issued, new_tokens, on_ec2, net, sent, cs_tokens_json,
                   secret, saves>>

\* requests.post raises (connection error); nothing catches it.
RefreshRaises(t) ==
    /\ Raise(t)
    /\ UNCHANGED <<issued, resp, new_tokens, on_ec2, net, sent,
                   cs_tokens_json, secret, saves>>

\* The answer to the POST of refresh_tokens() arrives.
RefreshResponse(t) ==
    /\ pc[t] = "refresh_tokens"
    /\ \/ \E ein \in ExpiresInValues : RefreshOk(t, ein)
       \/ \E status \in FailureStatuses : RefreshFailed(t, status)
       \/ RefreshRaises(t)
    /\ UNCHANGED <<now, imds, flaps, calls, tokens, before, alone,
                   floor, grant, save_failed, long, roundTrip, apiCall, keys>>

\* save_tokens(), lines 129-151: update_secret, or create_secret when the
\* secret does not exist; refresh_tokens() then returns new_tokens.
SaveToSecret(t) ==
    /\ secret' = new_tokens[t]
    /\ saves' = Append(saves, new_tokens[t].access_token)
    /\ net' = [net EXCEPT ![t] = @ + ProbeRequests
                                    + (IF secret.kind = "absent" THEN 2 ELSE 1)]
    /\ Return(t, new_tokens[t])
    /\ UNCHANGED <<cs_tokens_json, save_failed>>

\* A save_tokens that swallows the error of the Secrets Manager call.
SaveToSecretFails_Swallowed(t) ==
    /\ net' = [net EXCEPT ![t] = @ + ProbeRequests + 1]
    /\ save_failed' = [save_failed EXCEPT ![t] = TRUE]
    /\ Return(t, new_tokens[t])
    /\ UNCHANGED <<cs_tokens_json, secret, saves>>

\* save_tokens(): the Secrets Manager call fails; the ClientError (line 151)
\* or any other exception leaves save_tokens() and its callers.
SaveToSecretFails(t) ==
    /\ net' = [net EXCEPT ![t] = @ + ProbeRequests + 1]
    /\ save_failed' = [save_failed EXCEPT ![t] = TRUE]
    /\ Raise(t)
    /\ UNCHANGED <<cs_tokens_json, secret, saves>>

\* _save_tokens_local(), line 160: open(token_file, 'w') truncates the file.
OpenLocal(t) ==
    /\ cs_tokens_json' = Empty
    /\ net' = [net EXCEPT ![t] = @ + ProbeRequests]
    /\ pc' = [pc EXCEPT ![t] = "json_dump"]
    /\ UNCHANGED <<secret, saves, ret, save_failed>>

\* _save_tokens_local(), line 160: open() raises OSError (no permission,
\* read-only file system); the file is untouched.
OpenLocalFails(t) ==
    /\ net' = [net EXCEPT ![t] = @ + ProbeRequests]
    /\ save_failed' = [save_failed EXCEPT ![t] = TRUE]
    /\ Raise(t)
    /\ UNCHANGED <<cs_tokens_json, secret, saves>>

\* save_tokens(), lines 127-154: the probe selects the backend and the
\* write to it begins.
SaveTokens(t) ==
    /\ pc[t] = "save_tokens"
    /\ on_ec2' = [on_ec2 EXCEPT ![t].save = is_running_on_ec2]
    /\ IF is_running_on_ec2
       THEN SaveToSecret(t) \/ SaveToSecretFails(t)
       ELSE OpenLocal(t) \/ OpenLocalFails(t)
    /\ UNCHANGED <<now, imds, flaps, issued, calls, tokens,
                   new_tokens, sent, resp, before, alone, floor, grant, long,
                   roundTrip, apiCall, keys>>

\* What the file holds after json.dump from offset 0: the dict, or, when
\* another writer has written since this writer's truncation, possibly that
\* writer's longer text with this text over its beginning.
DumpOutcomes(t) ==
    IF cs_tokens_json.kind = "empty"
    THEN {new_tokens[t]}
    ELSE {new_tokens[t], Garbled}

\* json.dump completes and the file is closed; new_tokens is returned.
DumpWritten(t) ==
    /\ \E content \in DumpOutcomes(t) : cs_tokens_json' = content
    /\ saves' = Append(saves, new_tokens[t].access_token)
    /\ Return(t, new_tokens[t])
    /\ UNCHANGED save_failed

\* json.dump raises OSError (disk full): the file keeps what it held after
\* the truncation, or part of the text.
DumpFails(t) ==
    /\ cs_tokens_json' \in {cs_tokens_json, Garbled}
    /\ save_failed' = [save_failed EXCEPT ![t] = TRUE]
    /\ Raise(t)
    /\ UNCHANGED saves

\* _save_tokens_local(), line 161: json.dump and close.
JsonDump(t) ==
    /\ pc[t] = "json_dump"
    /\ DumpWritten(t) \/ DumpFails(t)
    /\ UNCHANGED <<now, imds, flaps, secret, issued, calls, on_ec2, tokens,
                   new_tokens, sent, resp, net, before, alone, floor, grant,
                   long, roundTrip, apiCall, keys>>

Next ==
    \/ Tick
    \/ MetadataChange
    \/ \E t \in Threads : EnsureValidTokens(t)
    \/ \E t \in Threads : RefreshResponse(t)
    \/ \E t \in Threads : SaveTokens(t)
    \/ \E t \in Threads : JsonDump(t)

Init == InitTokens(FALSE)

Spec == Init /\ [][Next]_vars

\* Stored content that is damaged: a TokenSet whose expires_at is missing,
\* is text that is no timestamp, or is a number; or undecodable content.
CorruptContents ==
    { [tk EXCEPT !.expires_at = e] :
        tk \in InitialTokens, e \in {<<>>, <<"str", 0>>, <<"int", 1>>} }
    \cup {Garbled}

CorruptStores ==
    { <<c, Absent>> : c \in CorruptContents }
    \cup { <<Absent, c>> : c \in CorruptContents }

InitCorrupt ==
    /\ long = FALSE
    /\ now = 0
    /\ imds \in BOOLEAN
    /\ flaps = 0
    /\ \E st \in InitialStores \cup CorruptStores :
          cs_tokens_json = st[1] /\ secret = st[2]
    /\ NoCaller
    /\ NoRoundTrip
    /\ NoApiCall
    /\ NoKeys("env")

\* The same program started on stores that may hold damaged content.
SpecCorrupt == InitCorrupt /\ [][Next]_vars

\* The same program with a budget of LongCalls calls and LongIssue issues.
InitLong == InitTokens(TRUE)

SpecLong == InitLong /\ [][Next]_vars

----------------------------------------------------------------------------
(* save_tokens(T) and load_tokens() called one after the other by one      *)
(* caller, on a dict T that already carries an absolute expires_at.        *)

MaxSaves == 2

\* The dicts handed to save_tokens(): built at time 0, expires_at absolute.
RoundTripTokens ==
    { WithExpiresAt(ResponseJson(1, e), 0) : e \in ExpiresInValues }

InitRoundTrip ==
    /\ long = FALSE
    /\ now = 0
    /\ imds \in BOOLEAN
    /\ flaps = 0
    /\ cs_tokens_json = Absent
    /\ secret = Absent
    /\ NoCaller
    /\ NoApiCall
    /\ NoKeys("env")
    /\ T \in RoundTripTokens
    /\ T_orig = T
    /\ n_saves = 0
    /\ loaded = [n \in 1..MaxSaves |-> NotLoaded]

\* save_tokens(T), lines 121-161: expires_at is recomputed from the clock
\* and written into T, and T is written to the backend the probe selects.
SaveRoundTrip ==
    /\ n_saves < MaxSaves
    /\ n_saves' = n_saves + 1
    /\ T' = WithExpiresAt(T, now)
    /\ IF is_running_on_ec2
       THEN secret' = T' /\ UNCHANGED cs_tokens_json
       ELSE cs_tokens_json' = T' /\ UNCHANGED secret
    /\ UNCHANGED <<now, imds, flaps, issued, calls, saves, locals, long,
                   T_orig, loaded, apiCall, keys>>

\* load_tokens(), lines 163-193, after n_saves saves.
LoadRoundTrip ==
    /\ n_saves > 0
    /\ \E tk \in load_tokens(is_running_on_ec2) :
          loaded' = [loaded EXCEPT ![n_saves] = tk]
    /\ UNCHANGED <<shared, locals, long, T, T_orig, n_saves, apiCall, keys>>

NextRoundTrip ==
    \/ Tick
    \/ MetadataChange
    \/ SaveRoundTrip
    \/ LoadRoundTrip

SpecRoundTrip == InitRoundTrip /\ [][NextRoundTrip]_vars

\* C8. Save/load round trip: a TokenSet that load_tokens() yields after
\* save_tokens(T) has the field values T had before the save, in particular
\* the same absolute expires_at, however much time passed before the save.
C8_SaveLoadRoundTrip ==
    loaded[1].kind = "tokens" => loaded[1] = T_orig

\* C9. Save idempotence: the TokenSet load_tokens() yields after
\* save_tokens(T) has been called twice is the one it yielded after the
\* first call, with the same expires_at.
C9_SaveIdempotent ==
    (loaded[1].kind = "tokens" /\ loaded[2].kind = "tokens")
        => loaded[2] = loaded[1]

\* C16. Stored expiry is absolute and fixed at receipt: every TokenSet in
\* a store carries the expires_at it was given when it was received
\* (receipt time plus expires_in); saving the same TokenSet again later
\* does not move it.
C16_StoredExpiryFixed ==
    \A st \in {cs_tokens_json, secret} :
        st.kind = "tokens" => st.expires_at = T_orig.expires_at

----------------------------------------------------------------------------
(* upload_tokens(): POST /api/auth/upload-tokens (app.py)                  *)

\* The value of tokens['expires_in'] in a dict that has no such key.
NoKey == -2

\* The fields of the request body after .strip(): 0 is the empty string.
UploadTokenValues == {0, 7}
UploadExpiresAt == {<<>>, <<"str", 0>>, isoformat(0), isoformat(600)}

InitUpload ==
    /\ long = FALSE
    /\ now = 0
    /\ imds \in BOOLEAN
    /\ flaps = 0
    /\ \E st \in InitialStores : cs_tokens_json = st[1] /\ secret = st[2]
    /\ NoCaller
    /\ NoApiCall
    /\ NoKeys("env")
    /\ T = PyNone
    /\ T_orig = PyNone
    /\ n_saves = 0
    /\ loaded = [n \in 1..MaxSaves |-> NotLoaded]

\* upload_tokens(), app.py lines 806-819: the answer 400 for an empty field,
\* an expires_at that does not parse, or one that is not in the future.
UploadRejected(at, rt, eat) ==
    \/ at = 0 \/ rt = 0 \/ eat = <<>>
    \/ fromisoformat(eat) = ValueError
    \/ fromisoformat(eat) <= now

\* upload_tokens(), app.py lines 794-845. The dict of lines 825-830 has no
\* expires_in, so save_tokens() raises KeyError at line 124, before
\* anything is written; the except of line 843 answers 500. Had the key
\* been there, save_tokens() would store the dict with a recomputed
\* expires_at and return None, and line 841 would answer 500.
UploadTokens(at, rt, eat) ==
    /\ site = "none"
    /\ site' = "upload_tokens"
    /\ T_orig' = Dict("tokens", at, rt, NoKey, eat)
    /\ IF UploadRejected(at, rt, eat)
       THEN /\ api_ret' = "400"
            /\ UNCHANGED <<T, n_saves, cs_tokens_json, secret>>
       ELSE IF T_orig'.expires_in = NoKey
       THEN /\ api_ret' = "500 KeyError"
            /\ T' = T_orig'
            /\ n_saves' = n_saves + 1
            /\ UNCHANGED <<cs_tokens_json, secret>>
       ELSE /\ api_ret' = "500 Failed to save tokens"
            /\ T' = WithExpiresAt(T_orig', now)
            /\ n_saves' = n_saves + 1
            /\ IF is_running_on_ec2
               THEN secret' = T' /\ UNCHANGED cs_tokens_json
               ELSE cs_tokens_json' = T' /\ UNCHANGED secret
    /\ UNCHANGED <<now, imds, flaps, issued, calls, saves, locals, long,
                   loaded, attempt, outcomes, slept, keys>>

\* load_tokens() after the upload was answered.
LoadAfterUpload ==
    /\ site = "upload_tokens"
    /\ loaded[1] = NotLoaded
    /\ \E tk \in load_tokens(is_running_on_ec2) :
          loaded' = [loaded EXCEPT ![1] = tk]
    /\ UNCHANGED <<shared, locals, long, T, T_orig, n_saves, apiCall, keys>>

NextUpload ==
    \/ Tick
    \/ MetadataChange
    \/ \E at, rt \in UploadTokenValues :
          \E eat \in UploadExpiresAt : UploadTokens(at, rt, eat)
    \/ LoadAfterUpload

SpecUpload == InitUpload /\ [][NextUpload]_vars

\* C29. Manual token upload: an upload with non-empty access_token and
\* refresh_token and an ISO expires_at in the future is answered with
\* success, and a load_tokens() that afterwards yields a TokenSet yields
\* one with exactly the uploaded values, expires_at as given.
C29_UploadStoresTokens ==
    (/\ site = "upload_tokens"
     /\ T_orig.access_token # 0
     /\ T_orig.refresh_token # 0
     /\ T_orig.expires_at # <<>>
     /\ fromisoformat(T_orig.expires_at) > now)
    => /\ api_ret = "200 success"
       /\ loaded[1].kind = "tokens" =>
            /\ loaded[1].access_token = T_orig.access_token
            /\ loaded[1].refresh_token = T_orig.refresh_token
            /\ loaded[1].expires_at = T_orig.expires_at

----------------------------------------------------------------------------
(* The retry loops of get_account_numbers() and get_positions()            *)

AccountNumbersRetries == 5
PositionsRetries == 3
DefaultRetryAfter == 60

ApiSites == {"get_account_numbers", "get_account_details", "get_positions"}

\* What one requests.get() ends in: an exception or an HTTP answer.
Outcome(kind, status, retry_after) ==
    [kind |-> kind, status |-> status, retry_after |-> retry_after]

Outcomes ==
    { Outcome("ReadTimeout", 0, "absent"),
      Outcome("ConnectionError", 0, "absent"),
      Outcome("http", 200, "absent"),
      Outcome("http", 404, "absent"),
      Outcome("http", 500, "absent"),
      Outcome("http", 429, "absent"),
      Outcome("http", 429, "5"),
      Outcome("http", 429, "Wed, 21 Oct 2015 07:28:00 GMT") }

NetworkFailure(o) == o.kind \in {"ReadTimeout", "ConnectionError"}

\* int(response.headers.get("Retry-After", 60)), line 375; ValueError
\* when the header is not a number.
RetryAfterSeconds(h) ==
    IF h = "absent" THEN DefaultRetryAfter
    ELSE IF h = "5" THEN 5
    ELSE ValueError

InitApi ==
    /\ long = FALSE
    /\ now = 0
    /\ imds = FALSE
    /\ flaps = 0
    /\ cs_tokens_json = Absent
    /\ secret = Absent
    /\ NoCaller
    /\ NoRoundTrip
    /\ NoApiCall
    /\ NoKeys("env")

\* Feature code calls one of the API functions with an access token.
ApiCall(f) ==
    /\ site = "none"
    /\ site' = f
    /\ UNCHANGED <<shared, locals, long, roundTrip, keys, attempt, outcomes, slept,
                   api_ret>>

\* get_account_numbers(), lines 314-326: one pass of the loop on outcome o,
\* and the raise of line 326 when the loop ends.
AccountNumbersAttempt(o) ==
    /\ site = "get_account_numbers"
    /\ api_ret = "pending"
    /\ attempt < AccountNumbersRetries
    /\ outcomes' = Append(outcomes, o)
    /\ IF o.kind = "http" /\ o.status = 200
       THEN /\ api_ret' = "json"
            /\ UNCHANGED <<attempt, slept>>
       ELSE \* ReadTimeout, or any RequestException (raise_for_status too)
            /\ slept' = Append(slept, 2 ^ attempt)
            /\ attempt' = attempt + 1
            /\ api_ret' = IF attempt + 1 = AccountNumbersRetries
                          THEN "raised Exception" ELSE "pending"
    /\ UNCHANGED <<shared, locals, long, roundTrip, keys, site>>

\* get_positions(), lines 356-386: one pass of the loop on outcome o, and
\* the return None of line 386 when the loop ends.
PositionsAttempt(o) ==
    /\ site = "get_positions"
    /\ api_ret = "pending"
    /\ attempt < PositionsRetries
    /\ outcomes' = Append(outcomes, o)
    /\ IF o.kind = "http" /\ o.status = 200
       THEN /\ api_ret' = "positions"
            /\ UNCHANGED <<attempt, slept>>
       ELSE IF o.kind = "http" /\ o.status = 429
                /\ RetryAfterSeconds(o.retry_after) = ValueError
       THEN \* int() raises ValueError, which the except clause does not catch
            /\ api_ret' = "raised ValueError"
            /\ UNCHANGED <<attempt, slept>>
       ELSE /\ slept' = Append(slept,
                          IF o.kind = "http" /\ o.status = 429
                          THEN RetryAfterSeconds(o.retry_after)
                          ELSE 2 ^ attempt)
            /\ attempt' = attempt + 1
            /\ api_ret' = IF attempt + 1 = PositionsRetries
                          THEN "None" ELSE "pending"
    /\ UNCHANGED <<shared, locals, long, roundTrip, keys, site>>

\* get_account_details(), lines 336-345: one requests.get() without timeout
\* and outside any try; 200 gives the JSON, every other status gives None.
AccountDetailsAttempt(o) ==
    /\ site = "get_account_details"
    /\ api_ret = "pending"
    /\ o.kind # "ReadTimeout"
    /\ outcomes' = Append(outcomes, o)
    /\ api_ret' = IF o.kind # "http" THEN "raised RequestException"
                  ELSE IF o.status = 200 THEN "json"
                  ELSE "None"
    /\ UNCHANGED <<shared, locals, long, roundTrip, keys, site, attempt, slept>>

NextApi ==
    \/ \E f \in ApiSites : ApiCall(f)
    \/ \E o \in Outcomes : AccountNumbersAttempt(o)
    \/ \E o \in Outcomes : AccountDetailsAttempt(o)
    \/ \E o \in Outcomes : PositionsAttempt(o)

SpecApi == InitApi /\ [][NextApi]_vars

\* C10. Retry ceiling: an API call whose every attempt ended in a network
\* timeout or connection error has made exactly 5 attempts when it ends,
\* and ends by returning ApiError{Unavailable}.
C10_RetryCeiling ==
    (/\ api_ret # "pending"
     /\ \A i \in 1..Len(outcomes) : NetworkFailure(outcomes[i]))
    => /\ Len(outcomes) = 5
       /\ api_ret = "ApiError Unavailable"

----------------------------------------------------------------------------
(* get_api_keys() and load_api_keys(): the application keys                *)

MaxKeyCalls == 3

InitKeys ==
    /\ long = FALSE
    /\ now = 0
    /\ imds \in BOOLEAN
    /\ flaps = 0
    /\ cs_tokens_json = Absent
    /\ secret = Absent
    /\ NoCaller
    /\ NoRoundTrip
    /\ NoApiCall
    /\ \E env \in {"unset", "key_only", "env"} : NoKeys(env)

\* get_api_keys(), lines 99-101: the globals are returned when both are
\* set; otherwise load_api_keys() starts and probes the metadata service
\* (line 75), whether or not the environment variables are set; the secret
\* store is asked only when SCHWAB_APP_KEY is not set ("key_only": the key
\* is set and SCHWAB_APP_SECRET is not).
GetApiKeys(t) ==
    /\ key_pc[t] \in {"idle", "done"}
    /\ key_calls < MaxKeyCalls
    /\ key_calls' = key_calls + 1
    /\ IF APP_KEY # "None"
       THEN /\ key_ret' = [key_ret EXCEPT ![t] = APP_KEY]
            /\ key_net' = [key_net EXCEPT ![t] = 0]
            /\ key_pc' = [key_pc EXCEPT ![t] = "done"]
            /\ UNCHANGED resolutions
       ELSE /\ key_ret' = [key_ret EXCEPT ![t] = "pending"]
            /\ key_net' = [key_net EXCEPT ![t] = ProbeRequests]
            /\ key_pc' = [key_pc EXCEPT ![t] =
                            IF is_running_on_ec2 /\ environ = "unset"
                            THEN "load_secrets_from_aws" ELSE "getenv"]
            /\ resolutions' = resolutions + 1
    /\ UNCHANGED <<shared, locals, long, roundTrip, apiCall, APP_KEY,
                   environ>>

\* load_secrets_from_aws(), lines 48-68: get_secret_value on the credentials
\* secret; on success os.environ is set, on any exception nothing is.
LoadSecretsFromAws(t) ==
    /\ key_pc[t] = "load_secrets_from_aws"
    /\ \E ok \in BOOLEAN : environ' = IF ok THEN "aws" ELSE environ
    /\ key_net' = [key_net EXCEPT ![t] = @ + 1]
    /\ key_pc' = [key_pc EXCEPT ![t] = "getenv"]
    /\ UNCHANGED <<shared, locals, long, roundTrip, apiCall, APP_KEY,
                   key_ret, key_calls, resolutions>>

\* load_api_keys(), lines 78-87, and the assignment of line 100: the keys
\* are read from os.environ; ValueError when they are not there, and then
\* the globals stay None.
ReturnKeys(t) ==
    /\ key_pc[t] = "getenv"
    /\ key_pc' = [key_pc EXCEPT ![t] = "done"]
    /\ IF environ \in {"unset", "key_only"}
       THEN /\ key_ret' = [key_ret EXCEPT ![t] = "raised ValueError"]
            /\ UNCHANGED APP_KEY
       ELSE /\ key_ret' = [key_ret EXCEPT ![t] = environ]
            /\ APP_KEY' = environ
    /\ UNCHANGED <<shared, locals, long, roundTrip, apiCall, environ,
                   key_net, key_calls, resolutions>>

NextKeys ==
    \/ MetadataChange
    \/ \E t \in Threads : GetApiKeys(t)
    \/ \E t \in Threads : LoadSecretsFromAws(t)
    \/ \E t \in Threads : ReturnKeys(t)

SpecKeys == InitKeys /\ [][NextKeys]_vars

\* C28. Credential resolution order: a get_api_keys() call made while both
\* keys are set in the environment makes no request at all; a call that has
\* to resolve in the cloud environment while a key is missing from the
\* environment goes on to fetch the keys from the secret store.
C28_ResolutionOrder ==
    [][\A t \in Threads :
          GetApiKeys(t) =>
              /\ environ = "env" => key_net'[t] = 0
              /\ (APP_KEY = "None" /\ is_running_on_ec2 /\ environ # "env")
                    => key_pc'[t] = "load_secrets_from_aws"]_vars

\* C20. Credential resolution is memoized: over all get_api_keys() calls of
\* the process load_api_keys() (environment lookup, metadata probe, secret
\* fetch) runs at most once, and all calls that return keys return the same.
C20_ResolutionMemoized ==
    /\ resolutions <= 1
    /\ \A t, u \in Threads :
          (key_ret[t] \in {"env", "aws"} /\ key_ret[u] \in {"env", "aws"})
              => key_ret[t] = key_ret[u]

----------------------------------------------------------------------------
(* get_tokens(code): the authorization-code exchange                       *)

\* oauth_callback() (app.py, line 722) calls get_tokens(code): the POST of
\* line 233 is sent. The application keys are taken as resolved.
GetTokens(t) ==
    /\ ~Active(t)
    /\ calls < CallLimit
    /\ calls' = calls + 1
    /\ grant' = [grant EXCEPT ![t] = "authorization_code"]
    /\ save_failed' = [save_failed EXCEPT ![t] = FALSE]
    /\ on_ec2' = [on_ec2 EXCEPT ![t] = [load |-> FALSE, save |-> FALSE]]
    /\ tokens' = [tokens EXCEPT ![t] = PyNone]
    /\ new_tokens' = [new_tokens EXCEPT ![t] = PyNone]
    /\ sent' = [sent EXCEPT ![t] = <<>>]
    /\ resp' = [resp EXCEPT ![t] = NoResp]
    /\ ret' = [ret EXCEPT ![t] = NoRet]
    /\ net' = [net EXCEPT ![t] = 1]
    /\ before' = [before EXCEPT ![t] = <<cs_tokens_json, secret>>]
    /\ floor' = [floor EXCEPT ![t] = Len(saves)]
    /\ alone' = [u \in Threads |->
                    u = t /\ \A v \in Threads \ {t} : ~Active(v)]
    /\ pc' = [pc EXCEPT ![t] = "get_tokens"]
    /\ UNCHANGED <<now, imds, flaps, cs_tokens_json, secret, issued, saves,
                   long, roundTrip, apiCall, keys>>

\* get_tokens(), lines 234-236: a 200 answer is decoded and handed to
\* save_tokens(), which stamps expires_at (lines 124-125).
ExchangeOk(t, ein) ==
    /\ issued < IssueLimit
    /\ issued' = issued + 1
    /\ resp' = [resp EXCEPT ![t] = [status |-> 200, at |-> now]]
    /\ new_tokens' = [new_tokens EXCEPT ![t] =
                        WithExpiresAt(ResponseJson(issued + 1, ein), now)]
    /\ pc' = [pc EXCEPT ![t] = "save_tokens"]
    /\ UNCHANGED <<ret, net, cs_tokens_json, secret>>

\* A get_tokens that posts the code again when the exchange is refused.
ExchangeFailed_Retries(t, status) ==
    /\ resp' = [resp EXCEPT ![t] = [status |-> status, at |-> 0]]
    /\ net' = [net EXCEPT ![t] = @ + 1]
    /\ Return(t, PyNone)
    /\ UNCHANGED <<issued, new_tokens, cs_tokens_json, secret>>

\* get_tokens(), lines 238-242: any other status is printed and None is
\* returned; nothing is sent again and nothing is saved.
ExchangeFailed(t, status) ==
    /\ resp' = [resp EXCEPT ![t] = [status |-> status, at |-> 0]]
    /\ Return(t, PyNone)
    /\ UNCHANGED <<issued, new_tokens, net, cs_tokens_json, secret>>

\* requests.post raises; get_tokens() does not catch it.
ExchangeRaises(t) ==
    /\ Raise(t)
    /\ UNCHANGED <<issued, resp, new_tokens, net, cs_tokens_json, secret>>

\* The answer to the POST of get_tokens() arrives.
ExchangeResponse(t) ==
    /\ pc[t] = "get_tokens"
    /\ \/ \E ein \in ExpiresInValues : ExchangeOk(t, ein)
       \/ \E status \in FailureStatuses : ExchangeFailed(t, status)
       \/ ExchangeRaises(t)
    /\ UNCHANGED <<now, imds, flaps, calls, saves, on_ec2, tokens, sent,
                   before, alone, floor, grant, save_failed, long, roundTrip,
                   apiCall, keys>>

NextExchange ==
    \/ Tick
    \/ MetadataChange
    \/ \E t \in Threads : GetTokens(t)
    \/ \E t \in Threads : ExchangeResponse(t)
    \/ \E t \in Threads : SaveTokens(t)
    \/ \E t \in Threads : JsonDump(t)

SpecExchange == Init /\ [][NextExchange]_vars

\* C15. Code exchange failure is terminal: a get_tokens() call whose POST
\* was answered with a status other than 200 has sent exactly one request,
\* returns None, and (no other call having run) leaves both stores exactly
\* as they were before the call.
C15_ExchangeFailureTerminal ==
    \A t \in Threads :
        (/\ pc[t] = "done"
         /\ grant[t] = "authorization_code"
         /\ resp[t].status \in FailureStatuses)
        => /\ net[t] = 1
           /\ ret[t] = Returned(PyNone)
           /\ alone[t] => <<cs_tokens_json, secret>> = before[t]

\* C15 witness: a lone exchange was refused with 400 while a store held a
\* TokenSet.
C15_Witness ==
    \E t \in Threads :
        /\ pc[t] = "done"
        /\ alone[t]
        /\ grant[t] = "authorization_code"
        /\ resp[t].status = 400
        /\ \E i \in 1..2 : before[t][i].kind = "tokens"

----------------------------------------------------------------------------
(* get_all_positions() and OptionsService.fetch_options_chain(): feature   *)
(* code that asks ensure_valid_tokens() for a token and then sends one     *)
(* request to the brokerage API.                                           *)

FeatureSites == {"get_all_positions", "fetch_options_chain"}

\* The values the two functions return when they fail.
NoTokensResult(f) ==
    IF f = "get_all_positions" THEN "None"
    ELSE "error No valid tokens available"

FailedResult(f) ==
    IF f = "get_all_positions" THEN "None" ELSE "error"

OkResult(f) ==
    IF f = "get_all_positions" THEN "all_positions" ELSE "processed_data"

\* The function calls ensure_valid_tokens() (line 392; options_service 82).
FeatureTokens ==
    /\ site \in FeatureSites
    /\ calls = 0
    /\ EnsureValidTokens("web")

\* A feature function that sends its request without looking at the tokens.
FeatureRequest_Unchecked(o) ==
    /\ site \in FeatureSites
    /\ pc["web"] = "done"
    /\ api_ret = "pending"
    /\ outcomes' = Append(outcomes, o)
    /\ api_ret' = IF o.kind = "http" /\ o.status = 200
                  THEN OkResult(site) ELSE FailedResult(site)
    /\ UNCHANGED <<shared, locals, long, roundTrip, keys, site, attempt,
                   slept>>

\* get_all_positions(), lines 393-438, and fetch_options_chain(), lines
\* 83-140: no tokens gives the failure value at once; an exception of
\* ensure_valid_tokens() or of requests.get() is caught by the enclosing
\* except Exception and gives the failure value; otherwise one request is
\* sent and any status other than 200 gives the failure value.
FeatureRequest(o) ==
    /\ site \in FeatureSites
    /\ pc["web"] = "done"
    /\ api_ret = "pending"
    /\ IF ret["web"].kind = "None"
       THEN /\ api_ret' = NoTokensResult(site)
            /\ UNCHANGED outcomes
       ELSE IF ret["web"].kind = "raised"
       THEN /\ api_ret' = FailedResult(site)
            /\ UNCHANGED outcomes
       ELSE /\ outcomes' = Append(outcomes, o)
            /\ api_ret' = IF o.kind = "http" /\ o.status = 200
                          THEN OkResult(site) ELSE FailedResult(site)
    /\ UNCHANGED <<shared, locals, long, roundTrip, keys, site, attempt,
                   slept>>

NextFeature ==
    \/ Tick
    \/ MetadataChange
    \/ \E f \in FeatureSites : ApiCall(f)
    \/ FeatureTokens
    \/ RefreshResponse("web")
    \/ SaveTokens("web")
    \/ JsonDump("web")
    \/ \E o \in Outcomes : FeatureRequest(o)

SpecFeature == Init /\ [][NextFeature]_vars

RateLimited(o) == o.kind = "http" /\ o.status = 429 /\ o.retry_after = "5"

\* C11. Rate-limit handling: after an attempt answered 429 with
\* Retry-After: s the client sleeps exactly s seconds (no exponential
\* backoff instead of it or on top of it) and makes one retry; when that
\* retry is answered 429 as well, no further attempt follows it.
C11_RateLimitSingleRetry ==
    \A i \in 1..Len(outcomes) :
        RateLimited(outcomes[i]) =>
            /\ Len(slept) >= i
            /\ slept[i] = 5
            /\ api_ret # "pending" => Len(outcomes) > i
            /\ (Len(outcomes) > i /\ outcomes[i + 1].status = 429)
                   => Len(outcomes) = i + 1

\* An attempt answered with a 4xx status other than 429.
ClientError(o) ==
    o.kind = "http" /\ o.status \in 400..499 /\ o.status # 429

\* C12. Client errors are terminal: an attempt answered with a 4xx status
\* other than 429 is the last request of the call, and the call ends with a
\* Rejected failure.
C12_ClientErrorTerminal ==
    \A i \in 1..Len(outcomes) :
        ClientError(outcomes[i]) =>
            /\ Len(outcomes) = i
            /\ api_ret = "ApiError Rejected"

\* C14. Failures are values: whatever the requests of an API call end in,
\* no exception leaves the API function.
C14_NoExceptionEscapes ==
    api_ret \notin {"raised Exception", "raised ValueError",
                    "raised RequestException"}

\* An attempt answered with a 5xx status.
ServerError(o) == o.kind = "http" /\ o.status \in 500..599

\* C24. Server errors are retried like timeouts: a call whose every attempt
\* was answered 5xx has made exactly 5 attempts when it ends, and the sleep
\* after its i-th attempt was 2^(i-1) seconds.
C24_ServerErrorRetried ==
    (/\ api_ret # "pending"
     /\ \A i \in 1..Len(outcomes) : ServerError(outcomes[i]))
    => /\ Len(outcomes) = 5
       /\ \A i \in 1..Len(slept) : slept[i] = 2 ^ (i - 1)

\* An attempt answered 429 without a Retry-After header, or with one that
\* is not a number of seconds.
RateLimitedNoSeconds(o) ==
    o.kind = "http" /\ o.status = 429 /\ o.retry_after # "5"

\* C25. Default rate-limit wait: after an attempt answered 429 whose
\* Retry-After is absent or not a number, the client sleeps 60 seconds, and
\* the call does not end with the ValueError of parsing the header.
C25_DefaultRetryAfter ==
    \A i \in 1..Len(outcomes) :
        RateLimitedNoSeconds(outcomes[i]) =>
            /\ Len(slept) >= i
            /\ slept[i] = 60
            /\ api_ret # "raised ValueError"

\* Seconds slept before the n-th attempt of the call.
RECURSIVE SleptBefore(_)
SleptBefore(n) ==
    IF n <= 1 \/ n - 1 > Len(slept) THEN 0
    ELSE slept[n - 1] + SleptBefore(n - 1)

\* C26. Token reuse across retries: an API call whose retry sequence had
\* lasted at least as long as the refresh buffer (the margin by which the
\* token was known to be valid when the call began) before its final attempt
\* has invoked ensure_valid_tokens() exactly once during the sequence.
C26_RevalidateAfterCeiling ==
    (/\ api_ret # "pending"
     /\ Len(outcomes) >= 2
     /\ SleptBefore(Len(outcomes)) >= RefreshBufferSeconds)
    => calls = 1

----------------------------------------------------------------------------
(* Properties of ensure_valid_tokens()                                     *)

\* The store a probe answer selects (lines 127, 165).
Stored(ec2) == IF ec2 THEN secret ELSE cs_tokens_json

\* The store the call of t loaded from, as it was when the call began.
StoredBefore(t) == IF on_ec2[t].load THEN before[t][2] ELSE before[t][1]

\* t has returned, and no other call ran during its call or has run since.
DoneAlone(t) == pc[t] = "done" /\ alone[t]

\* C1. Single flight: the callers that are inside ensure_valid_tokens() at
\* the same time, having found the same stored TokenSet due for a refresh,
\* have sent exactly one refresh request between them.
C1_SingleFlight ==
    \A t \in Threads :
        Active(t) =>
            Cardinality({u \in Threads :
                            Active(u) /\ tokens[u] = tokens[t]
                                      /\ Len(sent[u]) = 1}) = 1

\* A step in which the call of t returns a value.
Returns(t) ==
    /\ \/ EnsureValidTokens(t)
       \/ RefreshResponse(t)
       \/ SaveTokens(t)
       \/ JsonDump(t)
    /\ pc'[t] = "done"

\* C2. No expired token is handed out: whenever ensure_valid_tokens()
\* returns a TokenSet, its expires_at is strictly later than the moment of
\* the return.
C2_NoExpiredTokenReturned ==
    [][\A t \in Threads :
          (Returns(t) /\ ret'[t].kind = "tokens") =>
              fromisoformat(ret'[t].value.expires_at) > now']_vars

\* C3. Valid fast path: a call that finds a stored TokenSet whose expires_at
\* is more than two minutes away returns exactly that TokenSet, leaves both
\* stores as they were and makes no outbound request.
C3_ValidFastPath ==
    \A t \in Threads :
        (/\ DoneAlone(t)
         /\ StoredBefore(t).kind = "tokens"
         /\ ~RefreshDue(fromisoformat(StoredBefore(t).expires_at), now))
        => /\ ret[t] = Returned(StoredBefore(t))
           /\ <<cs_tokens_json, secret>> = before[t]
           /\ net[t] = 0

C5_RefreshFailureKeepsStore ==
    \A t \in Threads :
        (pc[t] = "done" /\ resp[t].status \in FailureStatuses) =>
            /\ ret[t] = Returned(PyNone)
            /\ Len(sent[t]) = 1
            /\ alone[t] =>
                 /\ <<cs_tokens_json, secret>> = before[t]
                 /\ Stored(on_ec2[t].load).kind = "tokens"

\* C5 witness: a lone call found a TokenSet due, and its refresh got a 400.
C5_Witness ==
    \E t \in Threads :
        /\ DoneAlone(t)
        /\ resp[t].status = 400
        /\ StoredBefore(t).kind = "tokens"
        /\ ret[t].kind = "None"

\* C6. Missing token: a call that finds no TokenSet in the store returns
\* None, makes no outbound request and creates nothing in either store.
C6_MissingToken ==
    \A t \in Threads :
        (DoneAlone(t) /\ StoredBefore(t).kind = "absent") =>
            /\ ret[t] = Returned(PyNone)
            /\ <<cs_tokens_json, secret>> = before[t]
            /\ net[t] = 0

\* C7. Read after refresh: a call that began after the save of a refreshed
\* TokenSet had completed returns, if it returns a TokenSet, the one of the
\* latest save completed before the call began or a newer one (saved later,
\* or issued later).
C7_ReadAfterRefresh ==
    \A t \in Threads :
        (ret[t].kind = "tokens" /\ floor[t] > 0) =>
            \/ \E i \in floor[t]..Len(saves) :
                   saves[i] = ret[t].value.access_token
            \/ ret[t].value.access_token > saves[floor[t]]

\* C17. Backend fixed for the process lifetime: every probe answer that
\* selected a backend for a load or for a save is the same answer, so all
\* loads and saves of the process go to one backend.
C17_BackendFixed ==
    \A t, u \in Threads :
        /\ (pc[t] # "idle" /\ pc[u] # "idle")
              => on_ec2[t].load = on_ec2[u].load
        /\ (pc[t] \in {"json_dump", "done"} /\ resp[t].status = 200)
              => on_ec2[t].save = on_ec2[t].load

\* C18. Atomic local save: whenever load_tokens() reads the local file, the
\* file holds a complete TokenSet or does not exist; it is never the empty
\* or half-written file of a save in progress.
C18_AtomicLocalSave ==
    [][\A t \in Threads :
          (EnsureValidTokens(t) /\ ~is_running_on_ec2)
              => cs_tokens_json.kind \in {"absent", "tokens"}]_vars

\* Stored content the claim calls corrupted.
Corrupted(st) ==
    IF st.kind = "garbled" THEN TRUE
    ELSE IF st.kind # "tokens" THEN FALSE
    ELSE IF st.expires_at = <<>> THEN TRUE
    ELSE IF ~IsString(st.expires_at) THEN TRUE
    ELSE fromisoformat(st.expires_at) = ValueError

\* C19. Corrupted storage is treated as Missing: a call that finds
\* corrupted content in the store it reads returns None, has sent no
\* refresh request and raises no exception.
C19_CorruptedIsMissing ==
    \A t \in Threads :
        (DoneAlone(t) /\ Corrupted(StoredBefore(t)))
        => /\ ret[t] = Returned(PyNone)
           /\ resp[t] = NoResp

\* C21. Persistence failures are surfaced: a call whose save_tokens()
\* failed does not return a TokenSet (nor None): the failure reaches the
\* caller of the operation as an exception.
C21_SaveFailureSurfaced ==
    \A t \in Threads :
        (pc[t] = "done" /\ save_failed[t]) => ret[t].kind = "raised"

\* C21 witness: a lone refresh got its new TokenSet, the save failed, and
\* the store still holds the old TokenSet.
C21_Witness ==
    \E t \in Threads :
        /\ DoneAlone(t)
        /\ save_failed[t]
        /\ resp[t].status = 200
        /\ <<cs_tokens_json, secret>> = before[t]
        /\ StoredBefore(t).kind = "tokens"

\* C22. Waiters share the in-flight refresh: at no time are two refresh
\* requests in flight; a caller arriving during a refresh sends none.
C22_OneRefreshInFlight ==
    Cardinality({t \in Threads : pc[t] = "refresh_tokens"}) <= 1

\* C23. No automatic refresh retry: one ensure_valid_tokens() call sends at
\* most one request to the token endpoint; once the refresh has been
\* answered with a failure status the call is over and has returned None,
\* and it never enters the interactive get_authorization_code().
C23_NoRefreshRetry ==
    \A t \in Threads :
        /\ Len(sent[t]) <= 1
        /\ pc[t] # "get_authorization_code"
        /\ (grant[t] = "refresh_token" /\ resp[t].status \in FailureStatuses)
              => (pc[t] = "done" /\ ret[t].kind = "None")

\* C23 witness: a refresh was answered 500 and the call returned None
\* after its single request.
C23_Witness ==
    \E t \in Threads :
        /\ pc[t] = "done"
        /\ resp[t].status = 500
        /\ sent[t] = <<tokens[t].refresh_token>>
        /\ ret[t].kind = "None"

\* No call is under way.
Quiescent == \A t \in Threads : ~Active(t)

\* C30. Store holds the latest issued token: when all calls have ended and
\* every TokenSet the token endpoint issued has been saved, a store holds
\* the TokenSet that was issued last.
C30_StoreHoldsLatest ==
    (Quiescent /\ issued >= 2 /\ Len(saves) = issued)
    => \E st \in {cs_tokens_json, secret} :
          st.kind = "tokens" /\ st.access_token = issued

\* The program under fair scheduling of its own steps. The POST of
\* refresh_tokens() (line 259) carries no timeout, so nothing forces its
\* answer (or an exception) to arrive: no fairness for RefreshResponse.
SpecLive ==
    /\ Init
    /\ [][Next]_vars
    /\ \A t \in Threads : WF_vars(SaveTokens(t)) /\ WF_vars(JsonDump(t))

\* C27. Termination: every ensure_valid_tokens() call that has sent its
\* refresh request eventually completes, even when the token endpoint
\* never answers.
C27_Termination ==
    \A t \in Threads : (pc[t] = "refresh_tokens") ~> (pc[t] = "done")

====
